---- MODULE Spec2Model ----
(***************************************************************************)
(* Model of the Libby import plugin: LibbyImportService (parseJsonFile,    *)
(* formatLibbyData, getHighlightColor, generateMarkdown, groupEventsByDate,*)
(* createFile) and the Import button's click handler of LibbyImportModal.  *)
(*                                                                         *)
(* Conventions.                                                            *)
(*  - A JSON property that is absent is modelled by leaving the field out  *)
(*    of the record, except for the raw highlight colour, where the        *)
(*    sentinel Undefined stands for the absent property.                   *)
(*  - Timestamps are small naturals; a calendar day is DayLen consecutive  *)
(*    timestamps, so toLocaleDateString is a non-injective, monotone map.  *)
(*  - Percentages are fixed-point numbers in thousandths (0.425 is 425).   *)
(*  - A rendered document is a sequence of lines; a line is a record of    *)
(*    the literal prefix (kind) and the interpolated values.               *)
(***************************************************************************)
EXTENDS Integers, Sequences, FiniteSets, TLC

VARIABLES
    data,        \* JSON.parse(fileContent) of the selected file (NoFile when none)
    folderPath,  \* plugin.settings.newFileLocation
    pc,          \* position of the click handler / parseJsonFile / createFile
    advised,     \* history: the format-changed Notice of parseJsonFile was shown
    versionChoice, \* history: the answer given at the version prompt ("" when none)
    book,        \* bookData: sequence holding the LibbyBook once parseJsonFile returned
    error,       \* message of the error caught by the click handler ("" when none)
    fileName,    \* createFile's fileName
    version,     \* createFile's version counter
    choices,     \* history: the answers given at the filename-conflict prompts
    tried,       \* history: the fileName of every exists() test of the while loop
    markdown,    \* createFile's markdown: sequence holding the rendered document
    files,       \* the vault's files: path -> content
    folders,     \* the vault's folders
    files0,      \* history: files when the click handler started
    folders0,    \* history: folders when the click handler started
    other        \* the locals of a second click handler run in flight, if any

vars == <<data, folderPath, pc, advised, versionChoice, book, error, fileName, version,
          choices, tried, markdown, files, folders, files0, folders0, other>>

(***************************************************************************)
(* Bounds of the model.                                                    *)
(***************************************************************************)
MaxTime == 2

DayLen == 2

MaxEvents == 3

MaxColored == 2

MaxCirc == 2

MaxVersion == 3

MaxSuffix == 2

(***************************************************************************)
(* Values.                                                                 *)
(***************************************************************************)
Undefined == "undefined"

Timestamps == 0 .. MaxTime

Chapters == {"1", "2"}

Quotes == {"q1", "q2"}

KnownColors == {"#FFB", "#DFC", "#FFE0EC"}

RawColors == KnownColors \cup {"#000", "", Undefined}

Yellow == "U+1F7E8"

GreenHeart == "U+1F49A"

PinkHeart == "U+1F497"

\* percent of a bookmark or highlight: a fraction, in thousandths
EventPercents == {425}

TheJourney ==
    [title |-> "Title", author |-> "Author", publisher |-> "Publisher",
     isbn |-> "978", percent |-> 420, format |-> "ebook"]

CircEntry(a) ==
    [timestamp |-> 0, activity |-> a, library |-> "City Library"]

CircEntries == {CircEntry("Borrowed"), CircEntry("Returned")}

SeqsUpTo(S, n) == UNION {[1 .. k -> S] : k \in 0 .. n}

RawBookmarks == [chapter : Chapters, timestamp : Timestamps, percent : EventPercents]

RawHighlights(colors, quotes, timestamps) ==
    [quote : quotes, timestamp : timestamps, percent : EventPercents,
     chapter : {"1"}, color : colors]

(***************************************************************************)
(* Pure functions of LibbyImportService.                                   *)
(***************************************************************************)
Has(d, f) == f \in DOMAIN d

Map(F(_), s) == [i \in 1 .. Len(s) |-> F(s[i])]

\* Math.round on a fixed-point number in thousandths
Round(x) == (x + 500) \div 1000

\* variant: the default branch passes the raw value through
getHighlightColorNoDefault(color) ==
    CASE color = "#FFB" -> Yellow
      [] color = "#DFC" -> GreenHeart
      [] color = "#FFE0EC" -> PinkHeart
      [] OTHER -> color

getHighlightColor(color) ==
    CASE color = "#FFB" -> Yellow
      [] color = "#DFC" -> GreenHeart
      [] color = "#FFE0EC" -> PinkHeart
      [] OTHER -> Yellow

bookmarkEvent(bookmark) ==
    [type |-> "Bookmark", text |-> bookmark.chapter, timestamp |-> bookmark.timestamp,
     percent |-> bookmark.percent, chapter |-> bookmark.chapter]

highlightEvent(highlight) ==
    [type |-> "Highlight", text |-> highlight.quote, timestamp |-> highlight.timestamp,
     percent |-> highlight.percent, chapter |-> highlight.chapter,
     color |-> getHighlightColor(highlight.color), quote |-> highlight.quote]

\* the comparator (a, b) => a.timestamp - b.timestamp
compare(a, b) == a.timestamp - b.timestamp

\* variant: x goes before the elements that compare equal to it
RECURSIVE InsertUnstable(_, _)
InsertUnstable(x, s) ==
    IF s = <<>> THEN <<x>>
    ELSE IF compare(Head(s), x) < 0
         THEN <<Head(s)>> \o InsertUnstable(x, Tail(s))
         ELSE <<x>> \o s

\* Array.prototype.sort is stable: x goes after every element that does not
\* compare greater than it
RECURSIVE Insert(_, _)
Insert(x, s) ==
    IF s = <<>> THEN <<x>>
    ELSE IF compare(Head(s), x) <= 0
         THEN <<Head(s)>> \o Insert(x, Tail(s))
         ELSE <<x>> \o s

\* variant: an element that compares equal to an earlier one is dropped
RECURSIVE SortDropTies(_)
SortDropTies(s) ==
    IF s = <<>> THEN <<>>
    ELSE LET rest == SortDropTies(SubSeq(s, 1, Len(s) - 1))
             x == s[Len(s)]
         IN IF \E i \in 1 .. Len(rest) : compare(rest[i], x) = 0
            THEN rest ELSE Insert(x, rest)

RECURSIVE Sort(_)
Sort(s) ==
    IF s = <<>> THEN <<>>
    ELSE Insert(s[Len(s)], Sort(SubSeq(s, 1, Len(s) - 1)))

\* data.bookmarks || []
ListOrEmpty(d, f) == IF Has(d, f) THEN d[f] ELSE <<>>

\* variant: the format is only read from a version 1 file
formatLibbyDataKeepVersion(d) ==
    [title |-> d.readingJourney.title,
     author |-> d.readingJourney.author,
     publisher |-> d.readingJourney.publisher,
     isbn |-> d.readingJourney.isbn,
     percent |-> d.readingJourney.percent * 100,
     format |-> IF d.version > 1 THEN Undefined ELSE d.readingJourney.format,
     events |-> Sort(Map(bookmarkEvent, ListOrEmpty(d, "bookmarks"))
                     \o Map(highlightEvent, ListOrEmpty(d, "highlights"))),
     circulation |-> d.circulation]

formatLibbyData(d) ==
    [title |-> d.readingJourney.title,
     author |-> d.readingJourney.author,
     publisher |-> d.readingJourney.publisher,
     isbn |-> d.readingJourney.isbn,
     percent |-> d.readingJourney.percent * 100,
     format |-> d.readingJourney.format,
     events |-> Sort(Map(bookmarkEvent, ListOrEmpty(d, "bookmarks"))
                     \o Map(highlightEvent, ListOrEmpty(d, "highlights"))),
     circulation |-> d.circulation]

\* new Date(timestamp).toLocaleDateString('en-US', {month, day, year}): the
\* calendar day the timestamp falls on
toLocaleDateString(timestamp) == timestamp \div DayLen

\* grouped[date]: index of the group of that date, 0 when the key is not set
GroupIndex(grouped, date) ==
    IF \E i \in 1 .. Len(grouped) : grouped[i].date = date
    THEN CHOOSE i \in 1 .. Len(grouped) : grouped[i].date = date
    ELSE 0

\* variant: grouped[date] is reset on every event
groupPushOverwrite(grouped, event) ==
    LET date == toLocaleDateString(event.timestamp)
        i == GroupIndex(grouped, date)
    IN IF i = 0
       THEN Append(grouped, [date |-> date, events |-> <<event>>])
       ELSE [grouped EXCEPT ![i].events = <<event>>]

\* one iteration of the forEach of groupEventsByDate
groupPush(grouped, event) ==
    LET date == toLocaleDateString(event.timestamp)
        i == GroupIndex(grouped, date)
    IN IF i = 0
       THEN Append(grouped, [date |-> date, events |-> <<event>>])
       ELSE [grouped EXCEPT ![i].events = Append(@, event)]

\* The Record<string, LibbyEvent[]> is modelled by the sequence of its
\* entries in Object.entries order: the keys are date strings, never
\* integer-like, so that order is the order in which the keys were set.
RECURSIVE groupEventsByDate(_)
groupEventsByDate(events) ==
    IF events = <<>> THEN <<>>
    ELSE groupPush(groupEventsByDate(SubSeq(events, 1, Len(events) - 1)),
                   events[Len(events)])

Line(kind, a, b, n) == [kind |-> kind, a |-> a, b |-> b, n |-> n]

Blank == Line("", "", "", 0)

eventLine(event) ==
    IF event.type = "Bookmark"
    THEN Line("- **Bookmark** Chapter", event.text, "", Round(event.percent * 100))
    ELSE Line("- **Highlight**", event.quote, event.color, Round(event.percent * 100))

groupLines(g) ==
    <<Line("###", "", "", g.date)>> \o Map(eventLine, g.events) \o <<Blank>>

RECURSIVE Flatten(_)
Flatten(ss) == IF ss = <<>> THEN <<>> ELSE Head(ss) \o Flatten(Tail(ss))

circulationLines(circulation) ==
    [i \in 1 .. Len(circulation) |->
        [kind |-> "circulation", n |-> i,
         date |-> toLocaleDateString(circulation[i].timestamp),
         a |-> circulation[i].activity,
         b |-> IF Has(circulation[i], "details") THEN circulation[i].details ELSE ""]]

\* book.circulation[0].library reads a property of undefined
generateMarkdownThrows(b) == Len(b.circulation) = 0

generateMarkdown(b) ==
    <<Line("#", b.title, "", 0),
      Line("by", b.author, "", 0),
      Blank,
      Line("## Book Details", "", "", 0),
      Line("- Publisher:", b.publisher, "", 0),
      Line("- ISBN:", b.isbn, "", 0),
      Line("- Progress:", "", "", Round(b.percent)),
      Line("- Format:", b.format, "", 0),
      Blank,
      Line("## Reading Timeline", "", "", 0),
      Blank>>
    \o Flatten(Map(groupLines, groupEventsByDate(b.events)))
    \o <<Line("## Circulation History", "", "", 0)>>
    \o circulationLines(b.circulation)
    \o <<Blank, Line("*Borrowed from", b.circulation[1].library, "", 0)>>

\* formatFileName with the default template '{{title}} - {{author}}'
formatFileName(b) == <<b.title, " - ", b.author>>

\* `${baseFileName}.md` when n = 0, `${baseFileName} ${n}.md` otherwise
FileName(base, n) == [base |-> base, n |-> n]

\* folderPath ? `${folderPath}/${fileName}` : fileName
FilePath(folder, name) == [folder |-> folder, name |-> name]

filePath == FilePath(folderPath, fileName)

exists(path) == path \in DOMAIN files

NotLibbyMessage == "The file you have uploaded doesn't look like a Libby data file and could not be imported."

CancelledMessage == "Import cancelled"

TypeErrorMessage == "Cannot read properties of undefined (reading 'library')"

ExistsMessage == "File already exists."

theBook == book[1]

(***************************************************************************)
(* The modal: the file input and the Import button.                        *)
(***************************************************************************)
NoFile == [x \in {} |-> ""]

\* no second run of the click handler
NoRun == [pc |-> "none"]

\* inputEl.files?.[0]
FileSelected == DOMAIN data # {}

CanSelect == pc = "idle" /\ ~FileSelected

\* the user picks a file in the file input
SelectFile(d) ==
    /\ CanSelect
    /\ data' = d
    /\ UNCHANGED <<folderPath, pc, advised, versionChoice, book, error, fileName, version,
                   choices, tried, markdown, files, folders, files0, folders0, other>>

\* the click handler up to its first await: without a file it only shows
\* "Please select a file first".  The button is gone once a run has closed
\* the modal.
Click ==
    /\ pc = "idle"
    /\ other.pc # "done"
    /\ pc' = IF FileSelected THEN "start" ELSE "idle"
    /\ UNCHANGED <<data, folderPath, advised, versionChoice, book, error, fileName,
                   version, choices, tried, markdown, files, folders, files0, folders0, other>>

(***************************************************************************)
(* parseJsonFile, run from the click handler.  It runs without yielding    *)
(* up to the version prompt, or to its return when no prompt is shown.     *)
(***************************************************************************)
Fail(message) ==
    /\ pc' = "failed"
    /\ error' = message

\* !data.readingJourney || !data.circulation: an absent section is falsy, an
\* object or an array (an empty one too) is truthy
notLibbyFile(d) == ~Has(d, "readingJourney") \/ ~Has(d, "circulation")

\* variant: data.version >= 1
needsAdvisoryFrom1(d) == d.version >= 1

\* data.version > 1
needsAdvisory(d) == d.version > 1

\* variant: the version is checked before the sections are
ParseJsonFileVersionFirst ==
    /\ pc = "start"
    /\ IF needsAdvisory(data)
       THEN /\ pc' = "versionPrompt"
            /\ advised' = TRUE
            /\ UNCHANGED <<book, error>>
       ELSE IF notLibbyFile(data)
       THEN /\ Fail(NotLibbyMessage)
            /\ UNCHANGED <<advised, book>>
       ELSE /\ pc' = "createFile"
            /\ book' = <<formatLibbyData(data)>>
            /\ UNCHANGED <<advised, error>>
    /\ UNCHANGED <<data, folderPath, versionChoice, fileName, version, choices, tried, markdown,
                   files, folders, files0, folders0, other>>

ParseJsonFile ==
    /\ pc = "start"
    /\ IF notLibbyFile(data)
       THEN /\ Fail(NotLibbyMessage)
            /\ UNCHANGED <<advised, book>>
       ELSE IF needsAdvisory(data)
       THEN /\ pc' = "versionPrompt"
            /\ advised' = TRUE
            /\ UNCHANGED <<book, error>>
       ELSE /\ pc' = "createFile"
            /\ book' = <<formatLibbyData(data)>>
            /\ UNCHANGED <<advised, error>>
    /\ UNCHANGED <<data, folderPath, versionChoice, fileName, version, choices, tried, markdown,
                   files, folders, files0, folders0, other>>

\* a click on 'Import anyway' or 'Cancel' resolves the promise
VersionChoice(choice) ==
    /\ pc = "versionPrompt"
    /\ versionChoice' = choice
    /\ IF choice = "cancel"
       THEN /\ Fail(CancelledMessage)
            /\ UNCHANGED book
       ELSE /\ pc' = "createFile"
            /\ book' = <<formatLibbyData(data)>>
            /\ UNCHANGED error
    /\ UNCHANGED <<data, folderPath, advised, fileName, version, choices, tried,
                   markdown, files, folders, files0, folders0, other>>

(***************************************************************************)
(* createFile, one action per stretch between two awaits.                  *)
(***************************************************************************)
CreateFileStart ==
    /\ pc = "createFile"
    /\ fileName' = FileName(formatFileName(theBook), 0)
    /\ version' = 1
    /\ pc' = "loopTest"
    /\ UNCHANGED <<data, folderPath, versionChoice, advised, book, error, choices, tried, markdown,
                   files, folders, files0, folders0, other>>

\* while (await this.app.vault.adapter.exists(filePath))
LoopTest ==
    /\ pc = "loopTest"
    /\ tried' = Append(tried, fileName)
    /\ pc' = IF exists(filePath) THEN "conflictPrompt" ELSE "folder"
    /\ UNCHANGED <<data, folderPath, versionChoice, advised, book, error, fileName, version, choices,
                   markdown, files, folders, files0, folders0, other>>

\* variant: 'Cancel' leaves the loop like 'Replace'
ConflictChoiceCancelBreaks(choice) ==
    /\ pc = "conflictPrompt"
    /\ choices' = Append(choices, choice)
    /\ IF choice \in {"replace", "cancel"}
       THEN /\ pc' = "folder"
            /\ UNCHANGED <<error, fileName, version>>
       ELSE /\ fileName' = FileName(formatFileName(theBook), version)
            /\ version' = version + 1
            /\ pc' = "loopTest"
            /\ UNCHANGED error
    /\ UNCHANGED <<data, folderPath, versionChoice, advised, book, tried, markdown,
                   files, folders, files0, folders0, other>>

\* a click on 'Replace', 'Save as new' or 'Cancel' resolves the promise
ConflictChoice(choice) ==
    /\ pc = "conflictPrompt"
    /\ choices' = Append(choices, choice)
    /\ IF choice = "replace"
       THEN /\ pc' = "folder"
            /\ UNCHANGED <<error, fileName, version>>
       ELSE IF choice = "cancel"
       THEN /\ Fail(CancelledMessage)
            /\ UNCHANGED <<fileName, version>>
       ELSE /\ fileName' = FileName(formatFileName(theBook), version)
            /\ version' = version + 1
            /\ pc' = "loopTest"
            /\ UNCHANGED error
    /\ UNCHANGED <<data, folderPath, versionChoice, advised, book, tried, markdown,
                   files, folders, files0, folders0, other>>

\* if (folderPath) { if (!getAbstractFileByPath(folderPath)) createFolder }
CreateFolder ==
    /\ pc = "folder"
    /\ folders' = IF folderPath # "" /\ folderPath \notin folders
                  THEN folders \cup {folderPath}
                  ELSE folders
    /\ pc' = "render"
    /\ UNCHANGED <<data, folderPath, versionChoice, advised, book, error, fileName, version, choices,
                   tried, markdown, files, files0, folders0, other>>

\* const markdown = this.generateMarkdown(book)
Render ==
    /\ pc = "render"
    /\ IF generateMarkdownThrows(theBook)
       THEN /\ Fail(TypeErrorMessage)
            /\ UNCHANGED markdown
       ELSE /\ markdown' = <<generateMarkdown(theBook)>>
            /\ pc' = "finalTest"
            /\ UNCHANGED error
    /\ UNCHANGED <<data, folderPath, versionChoice, advised, book, fileName, version, choices, tried,
                   files, folders, files0, folders0, other>>

\* if (await this.app.vault.adapter.exists(filePath))
FinalTest ==
    /\ pc = "finalTest"
    /\ pc' = IF exists(filePath) THEN "remove" ELSE "create"
    /\ UNCHANGED <<data, folderPath, versionChoice, advised, book, error, fileName, version, choices,
                   tried, markdown, files, folders, files0, folders0, other>>

\* await this.app.vault.adapter.remove(filePath)
Remove ==
    /\ pc = "remove"
    /\ files' = [p \in DOMAIN files \ {filePath} |-> files[p]]
    /\ pc' = "create"
    /\ UNCHANGED <<data, folderPath, versionChoice, advised, book, error, fileName, version, choices,
                   tried, markdown, folders, files0, folders0, other>>

\* await this.app.vault.create(filePath, markdown), then the success Notice
Create ==
    /\ pc = "create"
    /\ IF exists(filePath)
       THEN /\ Fail(ExistsMessage)
            /\ UNCHANGED files
       ELSE /\ files' = (filePath :> markdown[1]) @@ files
            /\ pc' = "done"
            /\ UNCHANGED error
    /\ UNCHANGED <<data, folderPath, versionChoice, advised, book, fileName, version, choices, tried,
                   markdown, folders, files0, folders0, other>>

(***************************************************************************)
(* Initial states.                                                         *)
(***************************************************************************)
\* a record with the field f set to v, or without it
Opt(present, f, v) == IF present THEN f :> v ELSE [x \in {} |-> v]

OldContent(n) == <<Line("old", "", "", n)>>

TheBase == formatFileName(TheJourney)

\* the vault holds "<base>.md" / "<base> k.md" for the suffixes in E, in folder
VaultFiles(folder, E) ==
    [p \in {FilePath(folder, FileName(TheBase, n)) : n \in E} |-> OldContent(p.name.n)]

InitRun ==
    /\ data = NoFile
    /\ pc = "idle"
    /\ advised = FALSE
    /\ versionChoice = ""
    /\ book = <<>>
    /\ error = ""
    /\ fileName = FileName(<<>>, 0)
    /\ version = 0
    /\ choices = <<>>
    /\ tried = <<>>
    /\ markdown = <<>>
    /\ files0 = files
    /\ folders0 = folders

OneBookmark == [chapter |-> "1", timestamp |-> 1, percent |-> 425]

OneHighlight ==
    [quote |-> "q1", timestamp |-> 1, percent |-> 425, chapter |-> "1", color |-> "#DFC"]

\* the files the user may select: sections present or absent, any version
ImportInputs ==
    {[version |-> v]
        @@ Opt(rj, "readingJourney", TheJourney)
        @@ Opt(hasCirc, "circulation", c)
        @@ Opt(ev # 0, "bookmarks", IF ev = 2 THEN <<OneBookmark>> ELSE <<>>)
        @@ Opt(ev # 0, "highlights", IF ev = 2 THEN <<OneHighlight>> ELSE <<>>) :
     v \in 0 .. MaxVersion, rj \in BOOLEAN, hasCirc \in BOOLEAN,
     c \in SeqsUpTo(CircEntries, MaxCirc), ev \in 0 .. 2}

SelectImportInput == CanSelect /\ \E d \in ImportInputs : SelectFile(d)

Init ==
    /\ other = NoRun
    /\ folderPath \in {"", "Books"}
    /\ folders \in SUBSET {"Books"}
    /\ \E E \in SUBSET (0 .. MaxSuffix) :
          /\ folderPath # "" /\ folderPath \notin folders => E = {}
          /\ files = VaultFiles(folderPath, E)
    /\ InitRun

Next ==
    \/ SelectImportInput
    \/ Click
    \/ ParseJsonFile
    \/ \E choice \in {"import", "cancel"} : VersionChoice(choice)
    \/ CreateFileStart
    \/ LoopTest
    \/ \E choice \in {"replace", "new", "cancel"} : ConflictChoice(choice)
    \/ CreateFolder
    \/ Render
    \/ FinalTest
    \/ Remove
    \/ Create

Spec == Init /\ [][Next]_vars

(***************************************************************************)
(* The normalizer and the renderer on bounded event lists: an accepted     *)
(* file of version 1, imported into an empty vault.                        *)
(***************************************************************************)
CoreData(bookmarks, highlights) ==
    [version |-> 1, readingJourney |-> TheJourney,
     circulation |-> <<CircEntry("Borrowed")>>,
     bookmarks |-> bookmarks, highlights |-> highlights]

MergeLengths ==
    {n \in (0 .. MaxEvents) \X (0 .. MaxEvents) : n[1] + n[2] <= MaxEvents}

\* bookmarks and highlights of every order and timestamp, MaxEvents in all
SelectMergeInput ==
    /\ CanSelect
    /\ \E n \in MergeLengths :
          \E bs \in [1 .. n[1] -> RawBookmarks],
             hs \in [1 .. n[2] -> RawHighlights({"#DFC"}, Quotes, Timestamps)] :
              SelectFile(CoreData(bs, hs))

\* d without the fields fs
Without(d, fs) == [f \in DOMAIN d \ fs |-> d[f]]

\* highlights of every raw color; the bookmarks or highlights list may be absent
SelectColorInput ==
    /\ CanSelect
    /\ \E k \in 0 .. MaxColored :
          \E bs \in {<<>>, <<OneBookmark>>},
             hs \in [1 .. k -> RawHighlights(RawColors, {"q1"}, {0, 1})],
             absent \in SUBSET {"bookmarks", "highlights"} :
              /\ "bookmarks" \in absent => bs = <<>>
              /\ "highlights" \in absent => k = 0
              /\ SelectFile(Without(CoreData(bs, hs), absent))

InitCore ==
    /\ other = NoRun
    /\ folderPath = ""
    /\ folders = {}
    /\ files = VaultFiles("", {})
    /\ InitRun

NextCore ==
    \/ SelectMergeInput
    \/ SelectColorInput
    \/ Click
    \/ ParseJsonFile
    \/ CreateFileStart
    \/ LoopTest
    \/ CreateFolder
    \/ Render

SpecCore == InitCore /\ [][NextCore]_vars

(***************************************************************************)
(* Two runs of the click handler in flight: the Import button clicked      *)
(* twice on the same file.  Each run has its own locals; the vault and the *)
(* file input are shared.  The variables pc .. markdown hold the locals of *)
(* the run whose continuation executes next, other holds those of the run  *)
(* that waits at an await.                                                 *)
(***************************************************************************)
Locals(id) ==
    [id |-> id, pc |-> pc, advised |-> advised, versionChoice |-> versionChoice,
     book |-> book, error |-> error, fileName |-> fileName, version |-> version,
     choices |-> choices, tried |-> tried, markdown |-> markdown]

\* the second run before its click
IdleRun ==
    [id |-> 2, pc |-> "idle", advised |-> FALSE, versionChoice |-> "",
     book |-> <<>>, error |-> "", fileName |-> FileName(<<>>, 0), version |-> 0,
     choices |-> <<>>, tried |-> <<>>, markdown |-> <<>>]

\* the event loop resumes the other run: every action ends at an await (or
\* at the end of the handler), where the other run's continuation or click
\* may be served first
Switch ==
    /\ FileSelected
    /\ other.pc # "none"
    /\ other' = Locals(3 - other.id)
    /\ pc' = other.pc
    /\ advised' = other.advised
    /\ versionChoice' = other.versionChoice
    /\ book' = other.book
    /\ error' = other.error
    /\ fileName' = other.fileName
    /\ version' = other.version
    /\ choices' = other.choices
    /\ tried' = other.tried
    /\ markdown' = other.markdown
    /\ UNCHANGED <<data, folderPath, files, folders, files0, folders0>>

\* an accepted file, of version 1 or 2, with one circulation entry
SelectTwoRunInput ==
    /\ CanSelect
    /\ \E d \in ImportInputs :
          /\ ~notLibbyFile(d)
          /\ d.version \in {1, 2}
          /\ Len(d.circulation) = 1
          /\ Has(d, "bookmarks") /\ d.bookmarks # <<>>
          /\ SelectFile(d)

InitTwo ==
    /\ other = IdleRun
    /\ folderPath \in {"", "Books"}
    /\ folders \in SUBSET {"Books"}
    /\ \E E \in SUBSET (0 .. MaxSuffix) :
          /\ folderPath # "" /\ folderPath \notin folders => E = {}
          /\ files = VaultFiles(folderPath, E)
    /\ InitRun

NextTwo ==
    \/ SelectTwoRunInput
    \/ Click
    \/ ParseJsonFile
    \/ \E choice \in {"import", "cancel"} : VersionChoice(choice)
    \/ CreateFileStart
    \/ LoopTest
    \/ \E choice \in {"replace", "new", "cancel"} : ConflictChoice(choice)
    \/ CreateFolder
    \/ Render
    \/ FinalTest
    \/ Remove
    \/ Create
    \/ Switch

SpecTwo == InitTwo /\ [][NextTwo]_vars

(***************************************************************************)
(* Vocabulary of the properties.                                           *)
(***************************************************************************)
Normalized == book # <<>>

bookmarks == ListOrEmpty(data, "bookmarks")

highlights == ListOrEmpty(data, "highlights")

events == theBook.events

\* what identifies a raw bookmark, a raw highlight, and the event made of it
BookmarkKey(b) == <<"Bookmark", b.chapter, b.timestamp, b.percent>>

HighlightKey(h) == <<"Highlight", h.quote, h.timestamp, h.percent>>

EventKey(e) == <<e.type, e.text, e.timestamp, e.percent>>

RawKeys == Map(BookmarkKey, bookmarks) \o Map(HighlightKey, highlights)

Count(s, x) == Cardinality({i \in 1 .. Len(s) : s[i] = x})

Range(s) == {s[i] : i \in 1 .. Len(s)}

IsPermutation(s, t) ==
    /\ Len(s) = Len(t)
    /\ \A x \in Range(s) \cup Range(t) : Count(s, x) = Count(t, x)

SortedByTimestamp(s) ==
    \A i \in 1 .. Len(s) - 1 : s[i].timestamp <= s[i + 1].timestamp

\* the elements of s of the given type and timestamp, in order
Sel(s, type, t) ==
    LET Test(e) == e[1] = type /\ e[3] = t
    IN SelectSeq(s, Test)

\* C1: once formatLibbyData has returned, the events are a permutation of
\* the input bookmarks followed by the input highlights (nothing dropped,
\* nothing duplicated) and are sorted non-decreasing by timestamp.
C1_PermutationSorted ==
    Normalized =>
        /\ IsPermutation(Map(EventKey, events), RawKeys)
        /\ SortedByTimestamp(events)

\* an input of three events, of both kinds, that is not in timestamp order
C1_Witness ==
    /\ Normalized
    /\ Len(events) = 3
    /\ bookmarks # <<>> /\ highlights # <<>>
    /\ \E i \in 1 .. Len(RawKeys) - 1 : RawKeys[i][3] > RawKeys[i + 1][3]
    /\ Map(EventKey, events) # RawKeys

\* C2: a bookmark and a highlight of the same timestamp come out bookmark
\* first, and the events of one kind and one timestamp keep their input order.
C2_MergeStable ==
    Normalized =>
        /\ \A i, j \in 1 .. Len(events) :
              /\ events[i].type = "Bookmark"
              /\ events[j].type = "Highlight"
              /\ events[i].timestamp = events[j].timestamp
              => i < j
        /\ \A t \in Timestamps, type \in {"Bookmark", "Highlight"} :
              Sel(Map(EventKey, events), type, t) = Sel(RawKeys, type, t)

\* a bookmark and a highlight tie, and so do two different bookmarks
C2_Witness ==
    /\ Normalized
    /\ \E t \in Timestamps :
          /\ Len(Sel(RawKeys, "Bookmark", t)) = 2
          /\ Sel(RawKeys, "Bookmark", t)[1] # Sel(RawKeys, "Bookmark", t)[2]
          /\ Len(Sel(RawKeys, "Highlight", t)) = 1

\* the Highlight events of timestamp t, and the raw highlights of timestamp t
HighlightEventsAt(t) ==
    LET Test(e) == e.type = "Highlight" /\ e.timestamp = t
    IN SelectSeq(events, Test)

RawHighlightsAt(t) ==
    LET Test(h) == h.timestamp = t
    IN SelectSeq(highlights, Test)

\* each raw highlight paired with the event made of it
ColorPairs ==
    UNION {{[raw |-> RawHighlightsAt(t)[k], event |-> HighlightEventsAt(t)[k]] :
                k \in 1 .. Len(RawHighlightsAt(t))} : t \in Timestamps}

\* C3: every Highlight event carries the symbol of its own raw color: the
\* three known codes give three pairwise-distinct symbols, and every other
\* value (unknown, empty, absent) gives the symbol of '#FFB'.
C3_ColorMapping ==
    Normalized =>
        /\ \A t \in Timestamps : Len(HighlightEventsAt(t)) = Len(RawHighlightsAt(t))
        /\ \A p \in ColorPairs :
              /\ p.event.quote = p.raw.quote
              /\ p.raw.color = "#FFB" => p.event.color = Yellow
              /\ p.raw.color = "#DFC" => p.event.color = GreenHeart
              /\ p.raw.color = "#FFE0EC" => p.event.color = PinkHeart
              /\ p.raw.color \notin KnownColors => p.event.color = Yellow
        /\ \A p, q \in ColorPairs :
              /\ p.raw.color \in KnownColors
              /\ q.raw.color \in KnownColors
              /\ p.raw.color # q.raw.color
              => p.event.color # q.event.color

\* a known non-default code next to a code that is not known
C3_Witness ==
    /\ Normalized
    /\ \E p, q \in ColorPairs :
          /\ p.raw.color \in {"#DFC", "#FFE0EC"}
          /\ q.raw.color \in {"#000", "", Undefined}

(***************************************************************************)
(* The Reading Timeline section of the rendered document.                  *)
(***************************************************************************)
Rendered == markdown # <<>>

IndexOfKind(md, kind) == CHOOSE i \in 1 .. Len(md) : md[i].kind = kind

IsHeading(line) == line.kind = "###"

IsEventLine(line) == line.kind \in {"- **Bookmark** Chapter", "- **Highlight**"}

\* the headings and event lines between the two section titles
TimelineLines ==
    LET md == markdown[1]
        Test(line) == IsHeading(line) \/ IsEventLine(line)
    IN SelectSeq(SubSeq(md, IndexOfKind(md, "## Reading Timeline") + 1,
                            IndexOfKind(md, "## Circulation History") - 1), Test)

HeadingDates == Map(LAMBDA line : line.n, SelectSeq(TimelineLines, IsHeading))

\* the date of the heading the line at position i stands under, -1 when none
HeadingAbove(i) ==
    LET above == {j \in 1 .. i - 1 : IsHeading(TimelineLines[j])}
    IN IF above = {} THEN -1
       ELSE TimelineLines[CHOOSE j \in above : \A k \in above : k <= j].n

\* the position in TimelineLines of the k-th event line
EventLineIndex(k) ==
    CHOOSE i \in 1 .. Len(TimelineLines) :
        /\ IsEventLine(TimelineLines[i])
        /\ Cardinality({j \in 1 .. i : IsEventLine(TimelineLines[j])}) = k

\* C8: in the rendered timeline every event has exactly one line, the lines
\* are in timeline order, each stands under the heading of its own calendar
\* day, no day has two headings, and the headings are in chronological order.
C8_DateGrouping ==
    Rendered =>
        /\ SelectSeq(TimelineLines, IsEventLine) = Map(eventLine, events)
        /\ \A k \in 1 .. Len(events) :
              HeadingAbove(EventLineIndex(k)) = events[k].timestamp \div DayLen
        /\ \A i, j \in 1 .. Len(HeadingDates) : i < j => HeadingDates[i] < HeadingDates[j]

\* two events of different timestamps on one day, and an event on another day
C8_Witness ==
    /\ Rendered
    /\ Len(HeadingDates) = 2
    /\ \E i, j \in 1 .. Len(events) :
          /\ events[i].timestamp # events[j].timestamp
          /\ events[i].timestamp \div DayLen = events[j].timestamp \div DayLen

(***************************************************************************)
(* The import as a whole: validation, version gate, file creation.         *)
(***************************************************************************)
VaultUntouched == files = files0 /\ folders = folders0

\* C4: a file without readingJourney or without circulation makes
\* parseJsonFile fail with the not-a-Libby-file error: no version prompt is
\* shown, no LibbyBook is produced and the vault is left as it was.
C4_MissingSectionFails ==
    FileSelected /\ (~Has(data, "readingJourney") \/ ~Has(data, "circulation")) =>
        /\ pc \in {"idle", "start", "failed"}
        /\ pc = "failed" => error = NotLibbyMessage
        /\ ~advised
        /\ book = <<>>
        /\ VaultUntouched

\* a file of a newer version without its circulation section, vault not empty
C4_Witness ==
    /\ ~Has(data, "circulation")
    /\ Has(data, "readingJourney")
    /\ data.version > 1
    /\ DOMAIN files0 # {}
    /\ pc = "failed"

\* C5: a circulation section that is present but empty makes normalization
\* fail, so generateMarkdown is only ever given a book with at least one
\* circulation entry and never fails.
C5_EmptyCirculationRejected ==
    /\ Has(data, "circulation") /\ data.circulation = <<>> => book = <<>>
    /\ pc = "render" => Len(theBook.circulation) >= 1
    /\ error # TypeErrorMessage

\* C6: for a file of version 2 or higher that the user chose to import
\* anyway, parseJsonFile returns the LibbyBook it returns for the same file
\* with version 1.
C6_VersionIndependent ==
    Normalized /\ data.version >= 2 =>
        theBook = formatLibbyData([data EXCEPT !.version = 1])

\* a version 3 file with events, imported anyway
C6_Witness ==
    /\ Normalized
    /\ data.version = 3
    /\ versionChoice = "import"
    /\ Len(events) = 2

\* C7: the advisory is shown only for a version above 1, and for every
\* accepted file of such a version; while it is pending there is no LibbyBook;
\* a LibbyBook of such a file exists only after 'Import anyway'; after
\* 'Cancel' the import has failed with 'Import cancelled', without a
\* LibbyBook and with the vault as it was.
C7_VersionGate ==
    /\ advised => data.version > 1
    /\ ~notLibbyFile(data) /\ data.version > 1 /\ pc \notin {"idle", "start"} => advised
    /\ pc = "versionPrompt" => advised /\ versionChoice = "" /\ book = <<>>
    /\ Normalized /\ data.version > 1 => versionChoice = "import"
    /\ Normalized /\ data.version <= 1 => versionChoice = ""
    /\ versionChoice = "cancel" =>
          /\ pc = "failed"
          /\ error = CancelledMessage
          /\ book = <<>>
          /\ VaultUntouched

\* the advisory was answered with 'Import anyway' and the file was written
C7_Witness ==
    /\ advised
    /\ versionChoice = "import"
    /\ data.version = 2
    /\ pc = "done"

Last(s) == s[Len(s)]

\* C9: after Cancel at a filename-conflict prompt, createFile has failed
\* with 'Import cancelled' and the vault is as it was: no file created,
\* removed or changed, no folder created.
C9_CancelLeavesVault ==
    choices # <<>> /\ Last(choices) = "cancel" =>
        /\ pc = "failed"
        /\ error = CancelledMessage
        /\ VaultUntouched

\* Cancel after two 'Save as new'
C9_Witness ==
    /\ choices = <<"new", "new", "cancel">>
    /\ pc = "failed"

AllSaveAsNew == choices # <<>> /\ \A i \in 1 .. Len(choices) : choices[i] = "new"

LoopLeft == pc \notin {"loopTest", "conflictPrompt"}

Candidate(n) == FilePath(folderPath, FileName(formatFileName(theBook), n))

\* C10: with every conflict prompt answered 'Save as new', the loop tests
\* "<base>.md", "<base> 1.md", "<base> 2.md", ... in this order, leaves at
\* the first "<base> k.md" that does not exist, and createFile writes the
\* rendered document there: the files that existed are still there,
\* unchanged, and exactly that one file is new.
C10_SaveAsNew ==
    AllSaveAsNew =>
        /\ \A i \in 1 .. Len(tried) : tried[i] = FileName(formatFileName(theBook), i - 1)
        /\ LoopLeft =>
              /\ fileName.n >= 1
              /\ ~(Candidate(fileName.n) \in DOMAIN files0)
              /\ \A k \in 1 .. fileName.n - 1 : Candidate(k) \in DOMAIN files0
              /\ pc # "failed"
        /\ pc \in {"folder", "render", "finalTest", "create"} => files = files0
        /\ pc = "done" =>
              /\ DOMAIN files = DOMAIN files0 \cup {filePath}
              /\ \A p \in DOMAIN files0 : files[p] = files0[p]
              /\ files[filePath] = generateMarkdown(theBook)

\* The same, for a LibbyBook with at least one circulation entry.
SaveAsNewOfRenderableBook ==
    Normalized /\ theBook.circulation # <<>> => C10_SaveAsNew

\* the user answered 'Replace' at the conflict prompt for path p in the run
\* that executes: 'Replace' leaves the loop with filePath as prompted
ReplaceChosenFor(p) ==
    /\ choices # <<>>
    /\ Last(choices) = "replace"
    /\ p = filePath

\* C11: a step removes a file of the vault, or changes its content, only if
\* the user chose 'Replace' at the conflict prompt for exactly that path; in
\* every interleaving of two createFile runs on the same vault and name.
C11_RemoveOnlyAfterReplace ==
    [][\A p \in DOMAIN files :
          p \notin DOMAIN files' \/ files'[p] # files[p] => ReplaceChosenFor(p)]_vars

====
